---- MODULE Spec2Model ----
(***************************************************************************)
(* Model of the incident dashboard: the loader, the geo aggregator and the *)
(* time-series aggregator of ihelpers.py, and the widget callbacks of      *)
(* idashboard.py.                                                          *)
(*                                                                         *)
(* A DataFrame is a sequence of rows; a row is a function from column      *)
(* names to values.  Text made of digits ("07") is a sequence of digits    *)
(* (<<0, 7>>), so that zero-padding and string comparison are computed;    *)
(* other text is a TLA+ string.  A mean is kept as an unreduced fraction   *)
(* [num, den].  A pandas groupby is modelled on the observed key           *)
(* combinations (unobserved categories of a categorical key are not        *)
(* added).  The data source of the time-series plot, which a callback      *)
(* writes and none reads, is not part of the state.                        *)
(***************************************************************************)
EXTENDS Integers, Sequences, FiniteSets, TLC

VARIABLES
    dfincident,        \* idashboard.py:34  the loaded incident table
    gdflocations,      \* idashboard.py:33  the loaded zone table
    locdata,           \* idashboard.py:35  module-level map table built at startup
    map_data,          \* map_glyph.data_source.geojson (geo_source), the map shown
    selected,          \* geo_source.selected.indices
    pattern_active,    \* pattern_select.active
    aggregate_active,  \* aggregate_select.active
    groupby_active,    \* groupby_select.active
    type_value,        \* type_filter.value
    slider,            \* time_slider: start, end, value, step, title
    slider_time_unit,  \* idashboard.py:58  module-level slider_time_unit
    toggle_active,     \* slider_active_toggle.active
    status_text,       \* status.text
    calls,             \* history: the aggregator calls of the last step, in order
    done,              \* history: the callbacks completed in the last step, in order
    returned,          \* history: what the last direct call of a helper returned
    event              \* history: the operation the last step performed

vars == <<dfincident, gdflocations, locdata, map_data, selected, pattern_active,
          aggregate_active, groupby_active, type_value, slider, slider_time_unit,
          toggle_active, status_text, calls, done, returned, event>>

-----------------------------------------------------------------------------
(* Bounds of the model *)

\* Largest number of rows of the incident file handed to the aggregators.
MaxRows == 2

\* Largest number of rows of the incident file the dashboard is started on.
MaxDashboardRows == 2

-----------------------------------------------------------------------------
(* Generic helpers *)

\* Body applied to the value v, which is computed once
With(v, Body(_)) == Body(v)

RECURSIVE Sum(_, _)
\* the sum of f over the finite set S
Sum(f, S) == IF S = {} THEN 0
             ELSE LET e == CHOOSE e \in S : TRUE IN f[e] + Sum(f, S \ {e})

\* lexicographic order on integer sequences (a proper prefix sorts first)
LexLess(a, b) ==
    \/ \E i \in 1..Len(a) : /\ i <= Len(b)
                            /\ a[i] < b[i]
                            /\ \A j \in 1..(i-1) : a[j] = b[j]
    \/ /\ Len(a) < Len(b)
       /\ \A j \in 1..Len(a) : a[j] = b[j]

RECURSIVE SortAscending(_, _)
\* the elements of S as a sequence, ascending by key[e]
SortAscending(S, key) ==
    IF S = {} THEN <<>>
    ELSE With(CHOOSE e \in S : \A o \in S : ~LexLess(key[o], key[e]),
              LAMBDA m : <<m>> \o SortAscending(S \ {m}, key))

\* index of v in the sequence s (0 when absent)
IndexOf(s, v) == IF \E i \in 1..Len(s) : s[i] = v
                 THEN CHOOSE i \in 1..Len(s) : s[i] = v
                 ELSE 0

Range(s) == {s[i] : i \in 1..Len(s)}

RECURSIVE Str(_)
\* str(n): the decimal digits of a natural number
Str(n) == IF n < 10 THEN <<n>> ELSE Str(n \div 10) \o <<n % 10>>

RECURSIVE zfill(_, _)
\* str.zfill(width): pad with zeros on the left up to width
zfill(s, width) == IF Len(s) >= width THEN s ELSE zfill(<<0>> \o s, width)

-----------------------------------------------------------------------------
(* The input files: the values a row of the incident file is drawn from *)

\* dates of the incident file with their date parts (the dim_datum_* columns)
Calendar ==
    << [datum |-> "2008-01-07", jaar |-> 2008, maand_nr |-> 1, maand_dag_nr |-> 7,
        week_nr |-> 2, dag_naam_nl |-> "Maandag"],
       [datum |-> "2008-01-08", jaar |-> 2008, maand_nr |-> 1, maand_dag_nr |-> 8,
        week_nr |-> 2, dag_naam_nl |-> "Dinsdag"],
       [datum |-> "2009-02-01", jaar |-> 2009, maand_nr |-> 2, maand_dag_nr |-> 1,
        week_nr |-> 5, dag_naam_nl |-> "Zondag"] >>

\* hours of the day that occur in the file (dim_tijd_uur)
HourValues == <<7, 15>>

\* incident types that occur in the file, in alphabetical order
TypeNames == <<"Alarm", "Brand">>

\* zone codes that occur in the file (hub_vak_bk), all inside the service
\* area; the incidents of the i-th hour lie in the i-th zone
ZoneCodes == <<13001, 13002>>

\* the zone file: one geometry per zone code
ZoneFile == << [vak |-> 13001, geometry |-> "poly13001"],
               [vak |-> 13002, geometry |-> "poly13002"] >>

NKinds == Len(Calendar) * Len(HourValues) * Len(TypeNames)

\* the k-th row kind (k in 0..NKinds-1) as a row of the file with id `id`
RawRow(k, id) ==
    With((k % Len(TypeNames)) + 1, LAMBDA t :
    With(((k \div Len(TypeNames)) % Len(HourValues)) + 1, LAMBDA h :
    With((k \div (Len(TypeNames) * Len(HourValues))) + 1, LAMBDA d :
       [dim_incident_id |-> id,
        dim_incident_incident_type |-> TypeNames[t],
        dim_datum_datum |-> Calendar[d].datum,
        dim_datum_jaar |-> Calendar[d].jaar,
        dim_datum_maand_nr |-> Calendar[d].maand_nr,
        dim_datum_maand_dag_nr |-> Calendar[d].maand_dag_nr,
        dim_datum_week_nr |-> Calendar[d].week_nr,
        dim_datum_dag_naam_nl |-> Calendar[d].dag_naam_nl,
        dim_tijd_uur |-> HourValues[h],
        hub_vak_bk |-> ZoneCodes[h]])))

\* the incident files of 1..n rows, rows listed in a fixed order of their kinds
\* (no operation depends on the order of the rows of the file)
IncidentFiles(n) ==
    UNION { { [i \in 1..m |-> RawRow(ks[i], i)] :
              ks \in { f \in [1..m -> 0..(NKinds-1)] :
                         \A i \in 1..(m-1) : f[i] <= f[i+1] } } : m \in 1..n }

\* the row kinds of the file the dashboard is started on: the first hour and
\* type on the first date, the last hour and type on the last date
PairedKinds == {0, NKinds - 1}

DashboardFiles(n) ==
    UNION { { [i \in 1..m |-> RawRow(ks[i], i)] :
              ks \in { f \in [1..m -> PairedKinds] :
                         \A i \in 1..(m-1) : f[i] <= f[i+1] } } : m \in 1..n }

-----------------------------------------------------------------------------
(* ihelpers.py: the loader *)

DayCategories == <<"Mon", "Tue", "Wed", "Thu", "Fri", "Sat", "Sun">>

MonthCategories == <<"Jan", "Feb", "Mar", "Apr", "May", "Jun",
                     "Jul", "Aug", "Sep", "Oct", "Nov", "Dec">>

DutchDayNames == <<"Maandag", "Dinsdag", "Woensdag", "Donderdag", "Vrijdag",
                   "Zaterdag", "Zondag">>

\* filter a sequence of rows, keeping their order
RECURSIVE SelectRows(_, _)
SelectRows(df, keep) ==
    IF df = <<>> THEN <<>>
    ELSE (IF keep[1] THEN <<Head(df)>> ELSE <<>>)
         \o SelectRows(Tail(df), [i \in 1..(Len(df)-1) |-> keep[i+1]])

\* load_and_preprocess_incidents: keep the rows of the service area (zone code
\* starting with "13") and add the derived columns
load_and_preprocess_incidents(file) ==
    With(SelectRows(file,
                    [i \in 1..Len(file) |->
                        SubSeq(Str(file[i].hub_vak_bk), 1, 2) = <<1, 3>>]),
         LAMBDA inArea :
       [i \in 1..Len(inArea) |->
          With(inArea[i], LAMBDA r :
             [dim_incident_id |-> r.dim_incident_id,
              dim_incident_incident_type |-> r.dim_incident_incident_type,
              dim_datum_datum |-> r.dim_datum_datum,
              dim_datum_jaar |-> r.dim_datum_jaar,
              dim_datum_maand_nr |-> r.dim_datum_maand_nr,
              dim_datum_maand_dag_nr |-> r.dim_datum_maand_dag_nr,
              dim_datum_week_nr |-> r.dim_datum_week_nr,
              dim_datum_dag_naam_nl |-> r.dim_datum_dag_naam_nl,
              dim_tijd_uur |-> r.dim_tijd_uur,
              hub_vak_bk |-> r.hub_vak_bk,
              hour |-> zfill(Str(r.dim_tijd_uur), 2),
              day_nr |-> zfill(Str(r.dim_datum_maand_dag_nr), 2),
              week_nr |-> zfill(Str(r.dim_datum_week_nr), 2),
              day_name |-> DayCategories[IndexOf(DutchDayNames, r.dim_datum_dag_naam_nl)],
              month |-> MonthCategories[r.dim_datum_maand_nr]])])

\* load_and_preprocess_geodata: the zone table with its lon/lat geometry
load_and_preprocess_geodata(file) ==
    [i \in 1..Len(file) |->
        [vak |-> file[i].vak, geometry |-> file[i].geometry,
         geometry_lonlat |-> <<"lonlat", file[i].geometry>>]]

-----------------------------------------------------------------------------
(* ihelpers.py: grouping helpers (pandas groupby / reindex / mean / sort) *)

\* the row r restricted to the set of columns S: one key of a groupby on S
Proj(r, S) == [c \in S |-> r[c]]

\* df.groupby(cols)[...].count().index: the observed key combinations
GroupIndex(df, cols) == {Proj(df[i], Range(cols)) : i \in 1..Len(df)}

\* df.groupby(cols)[...].count().reindex(index, fill_value=0)
CountReindexed(df, index) ==
    [k \in index |-> Cardinality({i \in 1..Len(df) : Proj(df[i], DOMAIN k) = k})]

\* a change that takes sum() where the code takes mean()
GroupMean_sum(counts, cols) ==
    [a \in {Proj(k, Range(cols)) : k \in DOMAIN counts} |->
        With({k \in DOMAIN counts : Proj(k, Range(cols)) = a},
             LAMBDA members : [num |-> Sum(counts, members), den |-> 1])]

\* counts.reset_index().groupby(cols)[...].mean(): one mean per key on cols,
\* taken over the rows of counts that share the key
GroupMean(counts, cols) ==
    [a \in {Proj(k, Range(cols)) : k \in DOMAIN counts} |->
        With({k \in DOMAIN counts : Proj(k, Range(cols)) = a},
             LAMBDA members : [num |-> Sum(counts, members),
                               den |-> Cardinality(members)])]

\* whether a list of grouping columns names a column twice; reset_index()
\* then cannot insert the second one
HasDuplicates(cols) ==
    \E i, j \in 1..Len(cols) : i < j /\ cols[i] = cols[j]

\* a change that sorts day and month names as plain text
ColKey_lexical(c, v) ==
    CASE c = "day_name" ->
            <<IndexOf(<<"Fri", "Mon", "Sat", "Sun", "Thu", "Tue", "Wed">>, v)>>
      [] c = "month" ->
            <<IndexOf(<<"Apr", "Aug", "Dec", "Feb", "Jan", "Jul",
                        "Jun", "Mar", "May", "Nov", "Oct", "Sep">>, v)>>
      [] c \in {"hour", "day_nr", "week_nr"} -> v
      [] c = "dim_incident_incident_type" -> <<IndexOf(TypeNames, v)>>
      [] c = "dim_datum_datum" ->
            <<CHOOSE i \in 1..Len(Calendar) : Calendar[i].datum = v>>
      [] OTHER -> <<v>>

\* the position of a value in the sort order of its column: ordered categories
\* for day and month names, string order for text, numeric order for years
ColKey(c, v) ==
    CASE c = "day_name" -> <<IndexOf(DayCategories, v)>>
      [] c = "month" -> <<IndexOf(MonthCategories, v)>>
      [] c \in {"hour", "day_nr", "week_nr"} -> v   \* digit text: string order
      [] c = "dim_incident_incident_type" -> <<IndexOf(TypeNames, v)>>
      [] c = "dim_datum_datum" ->
            <<CHOOSE i \in 1..Len(Calendar) : Calendar[i].datum = v>>
      [] OTHER -> <<v>>

RECURSIVE SortKey(_, _)
SortKey(k, cols) ==
    IF cols = <<>> THEN <<>>
    ELSE ColKey(Head(cols), k[Head(cols)]) \o SortKey(k, Tail(cols))

\* the keys of a groupby on cols in the order pandas lists them (sorted)
SortedKeys(keys, cols) ==
    SortAscending(keys, [k \in keys |-> SortKey(k, cols)])

\* order_categoricals: the rows of a grouped frame (one per key on cols), day
\* and month names made ordered categoricals, sorted by all columns; the keys
\* are distinct, so the value column never decides the order
order_categoricals(keys, cols) ==
    SortAscending(keys, [k \in keys |-> SortKey(k, cols)])

\* add_x_column: the x value of a row, a tuple when several columns make it up
add_x_column(k, xcols) ==
    IF Len(xcols) > 1 THEN [i \in 1..Len(xcols) |-> k[xcols[i]]]
    ELSE k[xcols[1]]

\* np.unique over one column of a frame, as a set
Unique(df, c) == {df[i][c] : i \in 1..Len(df)}

\* create_complete_index: every observed combination of data[cols] with every
\* factor; MultiIndex.from_tuples raises TypeError on an empty list
create_complete_index(data, cols, gcol, factors) ==
    With({k @@ (gcol :> f) : k \in GroupIndex(data, cols), f \in factors},
         LAMBDA tuples : [err |-> IF tuples = {} THEN "TypeError" ELSE "none",
                          index |-> tuples])

-----------------------------------------------------------------------------
(* ihelpers.py: the geo aggregator *)

\* grouped.merge(vakken, left_on="hub_vak_bk", right_on="vak", how="left"):
\* every row of grouped, in order, once per matching zone row, and once with a
\* missing geometry (<<>>) when no zone row matches
RECURSIVE MergeLeft(_, _)
MergeLeft(grouped, vakken) ==
    IF grouped = <<>> THEN <<>>
    ELSE With(Head(grouped), LAMBDA g :
         With(SelectSeq(vakken, LAMBDA v : v.vak = g.hub_vak_bk), LAMBDA matches :
            (IF matches = <<>>
             THEN << [hub_vak_bk |-> g.hub_vak_bk,
                      dim_incident_id |-> g.dim_incident_id,
                      geometry_lonlat |-> <<>>] >>
             ELSE [i \in 1..Len(matches) |->
                     [hub_vak_bk |-> g.hub_vak_bk,
                      dim_incident_id |-> g.dim_incident_id,
                      geometry_lonlat |-> matches[i].geometry_lonlat]])
            \o MergeLeft(Tail(grouped), vakken)))

\* prepare_data_for_geoplot(incidents, vakken): columns location_id,
\* incident_rate, geometry
prepare_data_for_geoplot(incidents, vakken) ==
    With(GroupIndex(incidents, <<"hub_vak_bk">>), LAMBDA zones :
    With(CountReindexed(incidents, zones), LAMBDA counts :
    With(SortedKeys(zones, <<"hub_vak_bk">>), LAMBDA keys :
    With([i \in 1..Len(keys) |-> [hub_vak_bk |-> keys[i].hub_vak_bk,
                                  dim_incident_id |-> counts[keys[i]]]],
         LAMBDA grouped :
    With(SelectSeq(MergeLeft(grouped, vakken), LAMBDA r : r.geometry_lonlat # <<>>),
         LAMBDA vakdata :
       [i \in 1..Len(vakdata) |->
          [location_id |-> vakdata[i].hub_vak_bk,
           incident_rate |-> vakdata[i].dim_incident_id,
           geometry |-> vakdata[i].geometry_lonlat]])))))

-----------------------------------------------------------------------------
(* ihelpers.py: the time-series aggregator *)

pattern_mapping == ("Daily" :> <<"dim_datum_datum">>)
                   @@ ("Weekly" :> <<"dim_datum_jaar", "week_nr">>)
                   @@ ("Yearly" :> <<"dim_datum_jaar">>)

agg_mapping == ("Hour" :> <<"hour">>) @@ ("Day" :> <<"day_name">>)
               @@ ("Week" :> <<"week_nr">>) @@ ("Month" :> <<"month">>)

\* None is the empty list of columns
group_mapping == ("None" :> <<>>)
                 @@ ("Type" :> <<"dim_incident_incident_type">>)
                 @@ ("Day of Week" :> <<"day_name">>)
                 @@ ("Year" :> <<"dim_datum_jaar">>)

\* the `locations` argument: None, or a list of zone ids
NoLocations == [none |-> TRUE, ids |-> {}]
Locations(ids) == [none |-> FALSE, ids |-> ids]

\* the value returned to the caller, or the exception raised instead
Returned(x, y, labels) == [err |-> "none", x |-> x, y |-> y, labels |-> labels]
Raised(e) == [err |-> e, x |-> <<>>, y |-> <<>>, labels |-> <<>>]

\* "adjust columns if difference in unit is bigger than one"
AdjustedAggCols(agg, pattern) ==
    CASE agg = "Hour" /\ pattern = "Weekly" -> <<"day_name", "hour">>
      [] agg = "Hour" /\ pattern = "Yearly" -> <<"month", "day_nr", "hour">>
      [] agg = "Day" /\ pattern = "Yearly" -> <<"month", "day_nr">>
      [] OTHER -> agg_mapping[agg]

AdjustedPatternCols(agg, pattern) ==
    IF agg = "Day" /\ pattern = "Weekly" THEN <<"dim_datum_jaar", "week_nr">>
    ELSE pattern_mapping[pattern]

\* "filter on types and locations"
FilterIncidents(dfi, types, locations) ==
    With(SelectRows(dfi, [i \in 1..Len(dfi) |->
                       dfi[i].dim_incident_incident_type \in types]),
         LAMBDA byType :
            IF locations.none THEN byType
            ELSE SelectRows(byType, [i \in 1..Len(byType) |->
                       byType[i].hub_vak_bk \in locations.ids]))

\* a change that takes the index from the filtered rows
AggregateUngrouped_filtered_index(dfi, dfi_filtered, pattern_cols, agg_cols) ==
    IF HasDuplicates(pattern_cols \o agg_cols) THEN Raised("ValueError")
    ELSE
    With(GroupIndex(dfi_filtered, pattern_cols \o agg_cols), LAMBDA new_index :
    With(CountReindexed(dfi_filtered, new_index), LAMBDA counts :
    With(GroupMean(counts, agg_cols), LAMBDA means :
    With(order_categoricals(DOMAIN means, agg_cols), LAMBDA rows :
       Returned([i \in 1..Len(rows) |-> add_x_column(rows[i], agg_cols)],
                [i \in 1..Len(rows) |-> means[rows[i]]],
                <<>>)))))

\* the branch taken when no grouping is requested
AggregateUngrouped(dfi, dfi_filtered, pattern_cols, agg_cols) ==
    IF HasDuplicates(pattern_cols \o agg_cols) THEN Raised("ValueError")
    ELSE
    With(GroupIndex(dfi, pattern_cols \o agg_cols), LAMBDA new_index :
    With(CountReindexed(dfi_filtered, new_index), LAMBDA counts :
    With(GroupMean(counts, agg_cols), LAMBDA means :
    With(order_categoricals(DOMAIN means, agg_cols), LAMBDA rows :
       Returned([i \in 1..Len(rows) |-> add_x_column(rows[i], agg_cols)],
                [i \in 1..Len(rows) |-> means[rows[i]]],
                <<>>)))))

\* grouped.groupby(groupby_col).apply(...): one (x list, y list, label) per
\* group value of the sorted rows, the groups in the order of their values
SplitByGroup(rows, means, agg_cols, groupby_col) ==
    With(SortedKeys({Proj(k, Range(groupby_col)) : k \in DOMAIN means}, groupby_col),
         LAMBDA labels :
    With([j \in 1..Len(labels) |->
            SelectSeq(rows, LAMBDA k : Proj(k, Range(groupby_col)) = labels[j])],
         LAMBDA groups :
       Returned([j \in 1..Len(labels) |->
                   [i \in 1..Len(groups[j]) |-> add_x_column(groups[j][i], agg_cols)]],
                [j \in 1..Len(labels) |->
                   [i \in 1..Len(groups[j]) |-> means[groups[j][i]]]],
                [j \in 1..Len(labels) |-> labels[j][groupby_col[1]]])))

\* the branch taken when a grouping is requested: the index is the observed
\* (pattern, unit) combinations when the grouping column is one of them, and
\* their product with the group values of the filtered rows otherwise
AggregateGrouped(dfi, dfi_filtered, pattern_cols, agg_cols, groupby_col) ==
    With(groupby_col[1] \in Range(agg_cols \o pattern_cols), LAMBDA inKeys :
    With(IF inKeys
         THEN [err |-> "none", index |-> GroupIndex(dfi, pattern_cols \o agg_cols)]
         ELSE create_complete_index(dfi, pattern_cols \o agg_cols, groupby_col[1],
                                    Unique(dfi_filtered, groupby_col[1])),
         LAMBDA new_index :
       IF new_index.err # "none" THEN Raised(new_index.err)
       ELSE IF \/ HasDuplicates(IF inKeys THEN pattern_cols \o agg_cols
                                ELSE pattern_cols \o agg_cols \o groupby_col)
               \/ HasDuplicates(agg_cols \o groupby_col)
            THEN Raised("ValueError")
       ELSE
       With(CountReindexed(dfi_filtered, new_index.index), LAMBDA counts :
       With(GroupMean(counts, agg_cols \o groupby_col), LAMBDA means :
       With(order_categoricals(DOMAIN means, agg_cols \o groupby_col), LAMBDA rows :
          SplitByGroup(rows, means, agg_cols, groupby_col))))))

\* a change that looks the grouping up with dict.get: an unknown grouping
\* name then means no grouping
aggregate_data_for_time_series_get(dfi, agg, pattern, group, types, locations) ==
    IF \/ pattern \notin DOMAIN pattern_mapping
       \/ agg \notin DOMAIN agg_mapping
    THEN Raised("KeyError")
    ELSE IF group \in DOMAIN group_mapping /\ group_mapping[group] # <<>>
         THEN AggregateGrouped(dfi, FilterIncidents(dfi, types, locations),
                               AdjustedPatternCols(agg, pattern),
                               AdjustedAggCols(agg, pattern), group_mapping[group])
         ELSE AggregateUngrouped(dfi, FilterIncidents(dfi, types, locations),
                                 AdjustedPatternCols(agg, pattern),
                                 AdjustedAggCols(agg, pattern))

\* aggregate_data_for_time_series(dfi, agg, pattern, group, types, locations)
aggregate_data_for_time_series(dfi, agg, pattern, group, types, locations) ==
    IF \/ pattern \notin DOMAIN pattern_mapping
       \/ agg \notin DOMAIN agg_mapping
       \/ group \notin DOMAIN group_mapping
    THEN Raised("KeyError")
    ELSE IF group_mapping[group] # <<>>
         THEN AggregateGrouped(dfi, FilterIncidents(dfi, types, locations),
                               AdjustedPatternCols(agg, pattern),
                               AdjustedAggCols(agg, pattern), group_mapping[group])
         ELSE AggregateUngrouped(dfi, FilterIncidents(dfi, types, locations),
                                 AdjustedPatternCols(agg, pattern),
                                 AdjustedAggCols(agg, pattern))

\* a change that filters the table in place
TableAfterAggregate_in_place(dfi, types, locations) ==
    FilterIncidents(dfi, types, locations)

\* the caller's table once aggregate_data_for_time_series has returned or
\* raised: dfi[mask] selects into a new frame, and order_categoricals and
\* add_x_column write into the grouped frame only
TableAfterAggregate(dfi, types, locations) == dfi

\* the caller's zone table once prepare_data_for_geoplot has returned: merge
\* builds a new frame
ZonesAfterGeoplot(incidents, vakken) == vakken

\* filter_on_slider_value(data, time_unit, value); an unknown time_unit builds
\* a ValueError without raising it and falls off the end, returning None
FilterResult(df) == [err |-> "none", none |-> FALSE, df |-> df]

\* the columns whose text is made of digits
DigitColumns == {"hour", "day_nr", "week_nr"}

\* data[c] == digits for one cell: text that is a name never equals digit text
CellEqualsDigits(c, cell, digits) == c \in DigitColumns /\ cell = digits

filter_on_slider_value(data, time_unit, value) ==
    CASE time_unit = "hour" ->
           FilterResult(SelectRows(data, [i \in 1..Len(data) |->
                            CellEqualsDigits("hour", data[i].hour, zfill(Str(value), 2))]))
      [] time_unit = "day" ->
           IF value \notin 1..7 THEN [err |-> "KeyError", none |-> FALSE, df |-> <<>>]
           ELSE FilterResult(SelectRows(data, [i \in 1..Len(data) |->
                            data[i].day_name = DayCategories[value]]))
      [] time_unit = "week" ->
           FilterResult(SelectRows(data, [i \in 1..Len(data) |->
                            CellEqualsDigits("week_nr", data[i].week_nr,
                                             zfill(Str(value), 2))]))
      [] time_unit = "month" ->
           FilterResult(SelectRows(data, [i \in 1..Len(data) |->
                            CellEqualsDigits("month", data[i].month,
                                             zfill(Str(value), 2))]))
      [] OTHER -> [err |-> "none", none |-> TRUE, df |-> <<>>]

-----------------------------------------------------------------------------
(* iplotcreators.py *)

\* _get_slider_params(time_unit); an unknown time_unit returns None
_get_slider_params(time_unit) ==
    CASE time_unit = "hour" ->
           [none |-> FALSE, start |-> 0, end |-> 23, value |-> 0, step |-> 1,
            title |-> "Hour of day"]
      [] time_unit = "day" ->
           [none |-> FALSE, start |-> 1, end |-> 7, value |-> 1, step |-> 1,
            title |-> "Day of week"]
      [] time_unit = "week" ->
           [none |-> FALSE, start |-> 1, end |-> 52, value |-> 1, step |-> 1,
            title |-> "Week number"]
      [] time_unit = "month" ->
           [none |-> FALSE, start |-> 1, end |-> 12, value |-> 1, step |-> 1,
            title |-> "Month number"]
      [] OTHER ->
           [none |-> TRUE, start |-> 0, end |-> 0, value |-> 0, step |-> 0,
            title |-> ""]

\* create_slider(time_unit): unpacking None raises TypeError (not reached at
\* startup, where time_unit is "hour")
create_slider(time_unit) ==
    With(_get_slider_params(time_unit), LAMBDA p :
       [start |-> p.start, end |-> p.end, value |-> p.value, step |-> p.step,
        title |-> p.title])

-----------------------------------------------------------------------------
(* idashboard.py: widgets and callbacks.                                   *)
(*                                                                         *)
(* A callback works on w, the record of the widget properties it can read  *)
(* and write.  Assigning a new value to a property that has an on_change   *)
(* handler runs that handler before the assignment returns (an unchanged   *)
(* value runs nothing); callback_select_all_types relies on this to        *)
(* refresh the plots.  w.exc names the exception that is propagating, if   *)
(* any: every statement after the raising one is skipped, up to the        *)
(* event loop.                                                             *)
(***************************************************************************)

feasible_combos ==
    ("Daily" :> [agg |-> <<"Hour">>,
                 group |-> <<"Type", "Day of Week", "Year", "None">>])
    @@ ("Weekly" :> [agg |-> <<"Hour", "Day">>,
                     group |-> <<"Type", "Year", "None">>])
    @@ ("Yearly" :> [agg |-> <<"Day", "Week", "Month">>,
                     group |-> <<"Type", "Year", "None">>])

slider_time_unit_mapping == (0 :> "hour") @@ (1 :> "day") @@ (2 :> "month")

pattern_labels == <<"Daily", "Weekly", "Yearly">>
aggregate_labels == <<"Hour", "Day", "Week", "Month">>
groupby_labels == <<"None", "Type", "Day of Week", "Year">>

\* labels[active] and labels.index(name), with Python's indices from 0
Label(labels, active) == labels[active + 1]
LabelIndex(labels, name) == IndexOf(labels, name) - 1

\* incident_types: the types present in the loaded table
incident_types(dfi) == Unique(dfi, "dim_incident_incident_type")

Failed(w) == w.exc # "none"
Raise(w, e) == [w EXCEPT !.exc = e]

\* history: a callback returned normally
Completed(w, name) ==
    IF Failed(w) THEN w
    ELSE [w EXCEPT !.done = Append(@, [callback |-> name,
                                       pattern |-> Label(pattern_labels, w.pattern_active),
                                       agg |-> Label(aggregate_labels, w.aggregate_active),
                                       group |-> Label(groupby_labels, w.groupby_active)])]

\* update_map(filtered_incidents): the table is bound to a local name, only
\* the data source of the map changes
update_map(w, filtered_incidents) ==
    [w EXCEPT !.map_data = prepare_data_for_geoplot(filtered_incidents, w.gdflocations),
              !.gdflocations = ZonesAfterGeoplot(filtered_incidents, w.gdflocations)]

\* lines 123-154 of update_time_series: the update itself, with the values
\* read at the top of the function; x[0] of a grouped result raises
\* IndexError when there is no group
PerformUpdate(w, agg_by, pattern, group_by, types) ==
    IF \E idx \in w.selected : idx + 1 > Len(locdata) THEN Raise(w, "IndexError")
    ELSE
    With(IF Cardinality(w.selected) > 0
         THEN Locations({locdata[idx + 1].location_id : idx \in w.selected})
         ELSE NoLocations, LAMBDA loc_ids :
    With(aggregate_data_for_time_series(w.dfincident, agg_by, pattern, group_by,
                                        types, loc_ids), LAMBDA out :
    With([w EXCEPT !.calls = Append(@, [agg |-> agg_by, pattern |-> pattern,
                                        group |-> group_by, types |-> types,
                                        locations |-> loc_ids, out |-> out]),
                   !.dfincident = TableAfterAggregate(@, types, loc_ids)],
         LAMBDA called :
       IF out.err # "none" THEN Raise(called, out.err)
       ELSE IF group_by # "None" /\ out.x = <<>> THEN Raise(called, "IndexError")
       ELSE called)))

RECURSIVE update_time_series(_, _, _)

\* wrappers for update to include the changed filter
callback_aggregation_selection(w, old, new) ==
    With(update_time_series(w, "agg", old), LAMBDA r : Completed(r, "agg"))

callback_groupby_selection(w, old, new) ==
    With(update_time_series(w, "group", old), LAMBDA r : Completed(r, "group"))

\* aggregate_select.active = v
SetAggregateActive(w, v) ==
    IF w.aggregate_active = v THEN w
    ELSE callback_aggregation_selection([w EXCEPT !.aggregate_active = v],
                                        w.aggregate_active, v)

\* groupby_select.active = v
SetGroupbyActive(w, v) ==
    IF w.groupby_active = v THEN w
    ELSE callback_groupby_selection([w EXCEPT !.groupby_active = v],
                                    w.groupby_active, v)

\* a change that resets the aggregation unit to the first label instead
CoercedAggregate_first_label(pattern) == 0

\* the widget index update_time_series gives an infeasible aggregation unit
\* on a change of another filter
CoercedAggregate(pattern) ==
    LabelIndex(aggregate_labels, feasible_combos[pattern].agg[1])

\* the widget index update_time_series gives an infeasible grouping on a
\* change of another filter ("No groupby")
CoercedGroupby(pattern) == 3

\* np.isin(agg_by, feasible_combos[pattern]["agg"])
AggFeasible(agg_by, pattern) == agg_by \in Range(feasible_combos[pattern].agg)

\* np.isin(group_by, feasible_combos[pattern]["group"])
GroupFeasible(group_by, pattern) == group_by \in Range(feasible_combos[pattern].group)

\* a change that leaves every update in place, also the one of a rejected value
perform_update_always(filter_, aggFeasible, groupFeasible) == TRUE

\* perform_update: cleared when the changed filter itself is the infeasible one
perform_update(filter_, aggFeasible, groupFeasible) ==
    /\ ~(~aggFeasible /\ filter_ = "agg")
    /\ ~(~groupFeasible /\ filter_ = "group")

\* lines 106-160 of update_time_series, for the values read at its top
UpdateWith(w, filter_, old, agg_by, pattern, group_by, types) ==
    With(AggFeasible(agg_by, pattern), LAMBDA aggFeasible :
    With(GroupFeasible(group_by, pattern), LAMBDA groupFeasible :
    With(IF aggFeasible THEN w
         ELSE IF filter_ = "agg" THEN SetAggregateActive(w, old)
         ELSE SetAggregateActive(w, CoercedAggregate(pattern)), LAMBDA w1 :
    With(IF Failed(w1) \/ groupFeasible THEN w1
         ELSE IF filter_ = "group" THEN SetGroupbyActive(w1, old)
         ELSE SetGroupbyActive(w1, CoercedGroupby(pattern)), LAMBDA w2 :
    With(IF Failed(w2) \/ ~perform_update(filter_, aggFeasible, groupFeasible) THEN w2
         ELSE PerformUpdate(w2, agg_by, pattern, group_by, types), LAMBDA w3 :
       IF Failed(w3) THEN w3 ELSE [w3 EXCEPT !.status_text = "at your service"])))))

\* update_time_series(filter_, attr, old, new)
update_time_series(w, filter_, old) ==
    UpdateWith([w EXCEPT !.status_text = "calculating"], filter_, old,
               Label(aggregate_labels, w.aggregate_active),
               Label(pattern_labels, w.pattern_active),
               Label(groupby_labels, w.groupby_active),
               w.type_value)

\* the map shows the rows of a filter result that have one of the types
MapOfFiltered(w, f, types) ==
    IF f.err # "none" THEN Raise(w, f.err)
    ELSE IF f.none THEN Raise(w, "TypeError")
    ELSE update_map(w, SelectRows(f.df, [i \in 1..Len(f.df) |->
                          f.df[i].dim_incident_incident_type \in types]))

\* callback_time_slider(attr, old, new)
callback_time_slider(w, old, new) ==
    With(IF ~w.toggle_active THEN w
         ELSE MapOfFiltered(w, filter_on_slider_value(w.dfincident, slider_time_unit, new),
                            w.type_value),
         LAMBDA r : Completed(r, "slider"))

\* time_slider.value = v
SetSliderValue(w, v) ==
    IF w.slider.value = v THEN w
    ELSE callback_time_slider([w EXCEPT !.slider.value = v], w.slider.value, v)

\* lines 170-174 of update_time_slider
ConfigureSlider(w, p) ==
    IF p.none THEN Raise(w, "TypeError")
    ELSE With(SetSliderValue([w EXCEPT !.slider.start = p.start,
                                       !.slider.end = p.end], p.value),
              LAMBDA w1 : IF Failed(w1) THEN w1
                          ELSE [w1 EXCEPT !.slider.step = p.step,
                                          !.slider.title = p.title])

\* update_time_slider(pattern): the unit is bound to a local name
update_time_slider(w, pattern) ==
    IF pattern \notin DOMAIN slider_time_unit_mapping THEN Raise(w, "KeyError")
    ELSE ConfigureSlider(w, _get_slider_params(slider_time_unit_mapping[pattern]))

callback_pattern_selection(w, old, new) ==
    With(update_time_series(w, "pattern", old), LAMBDA w1 :
    With(IF Failed(w1) THEN w1 ELSE update_time_slider(w1, new), LAMBDA r :
       Completed(r, "pattern")))

callback_type_filter(w, old, new) ==
    With(update_time_series(w, "types", old), LAMBDA w1 :
    With(IF Failed(w1) THEN w1
         ELSE MapOfFiltered(w1, filter_on_slider_value(w1.dfincident, slider_time_unit,
                                                       w1.slider.value), new),
         LAMBDA r : Completed(r, "types")))

callback_map_selection(w, old, new) ==
    With(update_time_series(w, "map", old), LAMBDA r : Completed(r, "map"))

\* type_filter.value = v
SetTypeValue(w, v) ==
    IF w.type_value = v THEN w
    ELSE callback_type_filter([w EXCEPT !.type_value = v], w.type_value, v)

callback_select_all_types(w) ==
    With(SetTypeValue(w, incident_types(dfincident)),
         LAMBDA r : Completed(r, "select_all"))

callback_toggle_slider_activity(w, active) ==
    With(IF active
         THEN callback_time_slider(w, w.slider.value, w.slider.value)
         ELSE update_map(w, SelectRows(w.dfincident, [i \in 1..Len(w.dfincident) |->
                   w.dfincident[i].dim_incident_incident_type \in w.type_value])),
         LAMBDA r : Completed(r, "toggle"))

-----------------------------------------------------------------------------
(* The dashboard as a state machine: one step per event of the session *)

\* the aggregator call with its outcome, as the history keeps it
CallRecord(agg, pattern, group, types, locations) ==
    [agg |-> agg, pattern |-> pattern, group |-> group, types |-> types,
     locations |-> locations,
     out |-> aggregate_data_for_time_series(dfincident, agg, pattern, group, types,
                                            locations)]

\* idashboard.py lines 32-69: the state once the module has been loaded
Startup(file) ==
    /\ dfincident = load_and_preprocess_incidents(file)
    /\ gdflocations = load_and_preprocess_geodata(ZoneFile)
    /\ locdata = prepare_data_for_geoplot(dfincident, gdflocations)
    /\ map_data = locdata
    /\ selected = {}
    /\ pattern_active = 0
    /\ aggregate_active = 0
    /\ groupby_active = 0
    /\ type_value = incident_types(dfincident)
    /\ slider_time_unit = "hour"
    /\ slider = create_slider(slider_time_unit)
    /\ toggle_active = FALSE
    /\ status_text = "at your service"
    /\ calls = <<CallRecord("Hour", "Daily", "None", incident_types(dfincident),
                            NoLocations)>>
    /\ done = <<>>
    /\ returned = <<>>
    /\ event = [name |-> "startup", new |-> 0, exc |-> "none"]

\* the session of the aggregator's callers: any incident file within the bound
Init == \E file \in IncidentFiles(MaxRows) : Startup(file)

\* the dashboard session: a file within the bound whose rows pair the i-th
\* hour, the i-th type and the i-th zone
InitDashboard == \E file \in DashboardFiles(MaxDashboardRows) : Startup(file)

\* the widget properties as the callbacks see them at the start of a step
Widgets ==
    [pattern_active |-> pattern_active, aggregate_active |-> aggregate_active,
     groupby_active |-> groupby_active, type_value |-> type_value,
     selected |-> selected, slider |-> slider, toggle_active |-> toggle_active,
     map_data |-> map_data, status_text |-> status_text,
     dfincident |-> dfincident, gdflocations |-> gdflocations,
     calls |-> <<>>, done |-> <<>>, exc |-> "none"]

\* the step ends: the properties and the tables are as the callbacks left
\* them; the module-level names no callback assigns stay as they are
Handled(result, name, new) ==
    \E w \in {result} :
    /\ pattern_active' = w.pattern_active
    /\ aggregate_active' = w.aggregate_active
    /\ groupby_active' = w.groupby_active
    /\ type_value' = w.type_value
    /\ selected' = w.selected
    /\ slider' = w.slider
    /\ toggle_active' = w.toggle_active
    /\ map_data' = w.map_data
    /\ status_text' = w.status_text
    /\ calls' = w.calls
    /\ done' = w.done
    /\ event' = [name |-> name, new |-> new, exc |-> w.exc]
    /\ dfincident' = w.dfincident
    /\ gdflocations' = w.gdflocations
    /\ UNCHANGED <<locdata, slider_time_unit, returned>>

\* the user picks another pattern
PatternSelected(new) ==
    /\ new \in 0..(Len(pattern_labels) - 1)
    /\ new # pattern_active
    /\ Handled(callback_pattern_selection([Widgets EXCEPT !.pattern_active = new],
                                          pattern_active, new),
               "pattern", new)

\* the user picks another aggregation unit
AggregationSelected(new) ==
    /\ new \in 0..(Len(aggregate_labels) - 1)
    /\ new # aggregate_active
    /\ Handled(callback_aggregation_selection([Widgets EXCEPT !.aggregate_active = new],
                                              aggregate_active, new),
               "agg", new)

\* the user picks another grouping
GroupbySelected(new) ==
    /\ new \in 0..(Len(groupby_labels) - 1)
    /\ new # groupby_active
    /\ Handled(callback_groupby_selection([Widgets EXCEPT !.groupby_active = new],
                                          groupby_active, new),
               "group", new)

\* the user changes the selection of incident types
TypesSelected(new) ==
    /\ new \in SUBSET incident_types(dfincident)
    /\ new # type_value
    /\ Handled(callback_type_filter([Widgets EXCEPT !.type_value = new],
                                    type_value, new),
               "types", new)

\* the user presses "Select all"
SelectAllClicked ==
    Handled(callback_select_all_types(Widgets), "select_all",
            incident_types(dfincident))

\* the user selects zones on the map (indices of the rows shown), or none
MapSelected(new) ==
    /\ new \in SUBSET (0..(Len(map_data) - 1))
    /\ new # selected
    /\ Handled(callback_map_selection([Widgets EXCEPT !.selected = new],
                                      selected, new),
               "map", new)

\* slider positions a step moves the slider to
SliderStops == {0, 1, 2, 7, 15}

\* the user, or the play timer, moves the slider
SliderMoved(new) ==
    /\ new \in SliderStops
    /\ slider.start <= new /\ new <= slider.end
    /\ new # slider.value
    /\ Handled(callback_time_slider([Widgets EXCEPT !.slider.value = new],
                                    slider.value, new),
               "slider", new)

\* the user, or the play button, switches the slider-active toggle
ToggleClicked ==
    Handled(callback_toggle_slider_activity(
                [Widgets EXCEPT !.toggle_active = ~toggle_active], ~toggle_active),
            "toggle", ~toggle_active)

Next ==
    \/ \E new \in 0..2 : PatternSelected(new)
    \/ \E new \in 0..3 : AggregationSelected(new)
    \/ \E new \in 0..3 : GroupbySelected(new)
    \/ \E new \in SUBSET Range(TypeNames) : TypesSelected(new)
    \/ SelectAllClicked
    \/ \E new \in SUBSET (0..(Len(ZoneFile) - 1)) : MapSelected(new)
    \/ \E new \in SliderStops : SliderMoved(new)
    \/ ToggleClicked

\* the whole dashboard
Spec == InitDashboard /\ [][Next]_vars

\* the events that reach the time-series plot: pattern, aggregation,
\* grouping, type filter and map selection (of the first row of the map, or
\* of none)
NextSeries ==
    \/ \E new \in 0..2 : PatternSelected(new)
    \/ \E new \in 0..3 : AggregationSelected(new)
    \/ \E new \in 0..3 : GroupbySelected(new)
    \/ \E new \in SUBSET Range(TypeNames) : TypesSelected(new)
    \/ SelectAllClicked
    \/ \E new \in SUBSET {0} : MapSelected(new)

SpecSeries == InitDashboard /\ [][NextSeries]_vars

\* the events that reach the map: type filter, map selection, slider and
\* slider-active toggle, with the plot left on (Daily, Hour, None)
NextMap ==
    \/ \E new \in SUBSET Range(TypeNames) : TypesSelected(new)
    \/ SelectAllClicked
    \/ \E new \in SUBSET (0..(Len(ZoneFile) - 1)) : MapSelected(new)
    \/ \E new \in SliderStops : SliderMoved(new)
    \/ ToggleClicked

SpecMap == InitDashboard /\ [][NextMap]_vars

-----------------------------------------------------------------------------
(* The aggregators and the slider helpers called directly, once, with       *)
(* arguments of the caller's choice                                        *)

\* names a caller may pass that the mapping tables do not hold
UnknownCombos == { <<"Quarter", "Daily", "None">>, <<"Hour", "Monthly", "None">>,
                   <<"Hour", "Daily", "Zone">> }

\* (unit, pattern, group) triples passed to the aggregator
Combos == (Range(aggregate_labels) \X Range(pattern_labels) \X Range(groupby_labels))
          \cup UnknownCombos

\* zone subsets passed to the aggregator
LocationArgs == {NoLocations, Locations({}), Locations({ZoneCodes[1]})}

AggregateCalled(c, types, locations) ==
    /\ event.name = "startup"
    /\ calls' = <<CallRecord(c[1], c[2], c[3], types, locations)>>
    /\ event' = [name |-> "aggregate", new |-> 0, exc |-> calls'[1].out.err]
    /\ dfincident' = TableAfterAggregate(dfincident, types, locations)
    /\ UNCHANGED <<gdflocations, locdata, map_data, selected,
                   pattern_active, aggregate_active, groupby_active, type_value,
                   slider, slider_time_unit, toggle_active, status_text,
                   done, returned>>

\* prepare_data_for_geoplot on the incidents of the given types
GeoplotCalled(types) ==
    /\ event.name = "startup"
    /\ map_data' = prepare_data_for_geoplot(
                       SelectRows(dfincident, [i \in 1..Len(dfincident) |->
                           dfincident[i].dim_incident_incident_type \in types]),
                       gdflocations)
    /\ event' = [name |-> "geoplot", new |-> types, exc |-> "none"]
    /\ calls' = <<>>
    /\ gdflocations' = ZonesAfterGeoplot(dfincident, gdflocations)
    /\ UNCHANGED <<dfincident, locdata, selected,
                   pattern_active, aggregate_active, groupby_active, type_value,
                   slider, slider_time_unit, toggle_active, status_text,
                   done, returned>>

\* time units passed to the slider helpers; "year" is not one they know
TimeUnits == {"hour", "day", "week", "month", "year"}

\* the slider values of a time unit: the range _get_slider_params gives it
SliderValues(time_unit) ==
    IF _get_slider_params(time_unit).none THEN {1}
    ELSE _get_slider_params(time_unit).start .. _get_slider_params(time_unit).end

\* filter_on_slider_value on the loaded table
FilterCalled(time_unit, value) ==
    /\ event.name = "startup"
    /\ value \in SliderValues(time_unit)
    /\ returned' = filter_on_slider_value(dfincident, time_unit, value)
    /\ event' = [name |-> "filter", new |-> <<time_unit, value>>,
                 exc |-> returned'.err]
    /\ calls' = <<>>
    /\ UNCHANGED <<dfincident, gdflocations, locdata, map_data, selected,
                   pattern_active, aggregate_active, groupby_active, type_value,
                   slider, slider_time_unit, toggle_active, status_text,
                   done>>

\* _get_slider_params, which has no statement that raises
SliderParamsCalled(time_unit) ==
    /\ event.name = "startup"
    /\ returned' = _get_slider_params(time_unit)
    /\ event' = [name |-> "slider_params", new |-> time_unit, exc |-> "none"]
    /\ calls' = <<>>
    /\ UNCHANGED <<dfincident, gdflocations, locdata, map_data, selected,
                   pattern_active, aggregate_active, groupby_active, type_value,
                   slider, slider_time_unit, toggle_active, status_text,
                   done>>

NextAggregator ==
    \/ \E c \in Combos, types \in SUBSET Range(TypeNames), locations \in LocationArgs :
          AggregateCalled(c, types, locations)
    \/ \E types \in SUBSET Range(TypeNames) : GeoplotCalled(types)
    \/ \E time_unit \in TimeUnits, value \in 0..52 : FilterCalled(time_unit, value)
    \/ \E time_unit \in TimeUnits : SliderParamsCalled(time_unit)

SpecAggregator == Init /\ [][NextAggregator]_vars

-----------------------------------------------------------------------------
(* Properties of the aggregators, stated over the recorded calls *)

\* the call asks for a combination of the compatibility table
Supported(c) ==
    /\ c.pattern \in DOMAIN feasible_combos
    /\ AggFeasible(c.agg, c.pattern)
    /\ GroupFeasible(c.group, c.pattern)

\* the rows of the incident table that pass the filter of the call
MatchingRows(c) == FilterIncidents(dfincident, c.types, c.locations)

\* the call asks for the hourly means of the daily pattern, ungrouped
IsHourly(c) == c.agg = "Hour" /\ c.pattern = "Daily" /\ c.group = "None"

\* ... with every type of the table included and no zone subset
IsHourlyAllTypes(c) ==
    /\ IsHourly(c)
    /\ incident_types(dfincident) \subseteq c.types
    /\ c.locations = NoLocations

\* the rows of df at hour h, and the dates on which they fall
HourRows(df, h) == {i \in 1..Len(df) : df[i].hour = h}
DatesWithHour(df, h) == {df[i].dim_datum_datum : i \in HourRows(df, h)}

\* C1: for every supported combination, a call whose filter no incident row
\* matches returns (does not raise) and its x and y are empty.
C1_EmptyFilterReturnsEmpty ==
    \A i \in 1..Len(calls) :
        (Supported(calls[i]) /\ MatchingRows(calls[i]) = <<>>)
        => /\ calls[i].out.err = "none"
           /\ calls[i].out.x = <<>>
           /\ calls[i].out.y = <<>>

\* C2 as stated: for Hour / Daily / None with all types, y[j] is the number of
\* incidents at hour x[j] divided by the number of distinct dates of the table.
C2_MeanOverAllDates ==
    \A i \in 1..Len(calls) :
        IsHourlyAllTypes(calls[i])
        => /\ calls[i].out.err = "none"
           /\ \A j \in 1..Len(calls[i].out.x) :
                 calls[i].out.y[j].num * Cardinality(Unique(dfincident, "dim_datum_datum"))
                 = Cardinality(HourRows(dfincident, calls[i].out.x[j]))
                   * calls[i].out.y[j].den

\* C2 amended: for Hour / Daily / None with all types, y[j] is the number of
\* incidents at hour x[j] divided by the number of distinct dates that have
\* an incident at that hour; a date without one does not enter the mean.
C2_MeanOverDatesWithHour ==
    \A i \in 1..Len(calls) :
        IsHourlyAllTypes(calls[i])
        => /\ calls[i].out.err = "none"
           /\ Len(calls[i].out.y) = Len(calls[i].out.x)
           /\ \A j \in 1..Len(calls[i].out.x) :
                 /\ calls[i].out.y[j].den > 0
                 /\ calls[i].out.y[j].num
                    * Cardinality(DatesWithHour(dfincident, calls[i].out.x[j]))
                    = Cardinality(HourRows(dfincident, calls[i].out.x[j]))
                      * calls[i].out.y[j].den

\* C2 witness: an Hour / Daily / None call with all types on a table where
\* some hour has incidents on fewer dates than the table holds
C2_Witness ==
    /\ event.name = "aggregate"
    /\ IsHourlyAllTypes(calls[1])
    /\ \E j \in 1..Len(calls[1].out.x) :
          /\ calls[1].out.y[j].num > 0
          /\ Cardinality(DatesWithHour(dfincident, calls[1].out.x[j]))
             < Cardinality(Unique(dfincident, "dim_datum_datum"))

\* C3: for Hour / Daily / None and any type and zone filter, x holds exactly
\* the hours observed in the unfiltered table, each once, and an hour with no
\* incident among the filtered rows has y = 0.
C3_ObservedHoursComplete ==
    \A i \in 1..Len(calls) :
        IsHourly(calls[i])
        => /\ calls[i].out.err = "none"
           /\ Len(calls[i].out.y) = Len(calls[i].out.x)
           /\ Range(calls[i].out.x) = Unique(dfincident, "hour")
           /\ Len(calls[i].out.x) = Cardinality(Unique(dfincident, "hour"))
           /\ \A j \in 1..Len(calls[i].out.x) :
                 HourRows(MatchingRows(calls[i]), calls[i].out.x[j]) = {}
                 => calls[i].out.y[j].num = 0 /\ calls[i].out.y[j].den > 0

\* C3 witness: an Hour / Daily / None call whose filter leaves one observed
\* hour with incidents and another without
C3_Witness ==
    /\ event.name = "aggregate"
    /\ IsHourly(calls[1])
    /\ \E j \in 1..Len(calls[1].out.x) :
          /\ HourRows(MatchingRows(calls[1]), calls[1].out.x[j]) = {}
          /\ calls[1].out.y[j].num = 0
    /\ \E j \in 1..Len(calls[1].out.x) : calls[1].out.y[j].num > 0

\* C4: for every supported combination a returning call has x and y of equal
\* length, and with a grouping the number of labels, and of per-group series,
\* is the number of distinct values of the grouping column among the rows
\* that pass the filter.
C4_LabelsMatchFilteredGroups ==
    \A i \in 1..Len(calls) :
        (Supported(calls[i]) /\ calls[i].out.err = "none")
        => /\ Len(calls[i].out.x) = Len(calls[i].out.y)
           /\ calls[i].group # "None"
              => /\ Len(calls[i].out.labels)
                    = Cardinality(Unique(MatchingRows(calls[i]),
                                         group_mapping[calls[i].group][1]))
                 /\ Len(calls[i].out.x) = Len(calls[i].out.labels)

\* C5: prepare_data_for_geoplot returns one row per zone of the zone table,
\* with the number of incidents of the zone as incident_rate, 0 included.
C5_OneRowPerZone ==
    event.name = "geoplot"
    => /\ Len(map_data) = Len(gdflocations)
       /\ \A z \in 1..Len(gdflocations) :
             \E r \in 1..Len(map_data) :
                /\ map_data[r].location_id = gdflocations[z].vak
                /\ map_data[r].incident_rate
                   = Cardinality({i \in 1..Len(dfincident) :
                        /\ dfincident[i].dim_incident_incident_type \in event.new
                        /\ dfincident[i].hub_vak_bk = gdflocations[z].vak})

\* the call passes a name that a mapping table does not hold
UnknownName(c) ==
    \/ c.pattern \notin DOMAIN pattern_mapping
    \/ c.agg \notin DOMAIN agg_mapping
    \/ c.group \notin DOMAIN group_mapping

\* C10 as stated: a call with an unknown name, or with a combination outside
\* the compatibility table, raises instead of returning a result.
C10_UnsupportedRaises ==
    \A i \in 1..Len(calls) :
        ~Supported(calls[i]) => calls[i].out.err # "none"

\* C10 amended: a call with a name outside the mapping tables raises KeyError;
\* the combination is not checked against the compatibility table, and
\* pattern Daily with unit Month (no grouping) returns a result.
C10_UnknownNameRaises ==
    \A i \in 1..Len(calls) :
        /\ UnknownName(calls[i]) => calls[i].out.err = "KeyError"
        /\ (calls[i].agg = "Month" /\ calls[i].pattern = "Daily"
            /\ calls[i].group = "None")
           => /\ calls[i].out.err = "none"
              /\ Len(calls[i].out.x) = Len(calls[i].out.y)
              /\ calls[i].out.x # <<>>

\* C10 witness: a call with an unknown grouping name that was answered with
\* KeyError
C10_Witness ==
    /\ event.name = "aggregate"
    /\ calls[1].group \notin DOMAIN group_mapping
    /\ calls[1].out.err = "KeyError"
    /\ event.exc = "KeyError"

\* the first unit column of the call, and its value in an entry of x
LeadingColumn(c) == AdjustedAggCols(c.agg, c.pattern)[1]
LeadingValue(c, xv) ==
    IF Len(AdjustedAggCols(c.agg, c.pattern)) > 1 THEN xv[1] ELSE xv

\* the place of a day or month name in its fixed order
CategoryRank(col, v) ==
    IF col = "day_name" THEN IndexOf(DayCategories, v)
    ELSE IndexOf(MonthCategories, v)

\* the day or month names of one x list never step back in the fixed order,
\* and step forward when the name is the whole key
InCategoryOrder(c, xs) ==
    \A j \in 1..(Len(xs) - 1) :
       /\ CategoryRank(LeadingColumn(c), LeadingValue(c, xs[j]))
          <= CategoryRank(LeadingColumn(c), LeadingValue(c, xs[j + 1]))
       /\ Len(AdjustedAggCols(c.agg, c.pattern)) = 1
          => CategoryRank(LeadingColumn(c), xs[j])
             < CategoryRank(LeadingColumn(c), xs[j + 1])

\* C11: the x categories follow the fixed categorical order, Mon..Sun for
\* weekday keys and Jan..Dec for month keys, never alphabetical order, in the
\* ungrouped result and within every group's x list.
C11_CategoricalOrder ==
    \A i \in 1..Len(calls) :
        (/\ ~UnknownName(calls[i])
         /\ calls[i].out.err = "none"
         /\ LeadingColumn(calls[i]) \in {"day_name", "month"})
        => IF calls[i].group = "None"
           THEN InCategoryOrder(calls[i], calls[i].out.x)
           ELSE \A g \in 1..Len(calls[i].out.x) :
                   InCategoryOrder(calls[i], calls[i].out.x[g])

\* C11 witness: unit Day in a weekly pattern on a table with a Tuesday and a
\* Sunday, which alphabetical order would list the other way round
C11_Witness ==
    /\ event.name = "aggregate"
    /\ calls[1].agg = "Day" /\ calls[1].pattern = "Weekly"
    /\ calls[1].group = "None"
    /\ calls[1].out.x = <<"Tue", "Sun">>

-----------------------------------------------------------------------------
(* Properties of the dashboard session; calls and done hold the aggregator  *)
(* calls and the completed callbacks of the latest event                   *)

\* the selection of the three radio groups
Selection ==
    [pattern |-> Label(pattern_labels, pattern_active),
     agg |-> Label(aggregate_labels, aggregate_active),
     group |-> Label(groupby_labels, groupby_active)]

\* C6: every aggregator call update_time_series makes passes a (pattern,
\* unit, group) triple of the feasible_combos table.
C6_CallsAreFeasible ==
    \A i \in 1..Len(calls) : Supported(calls[i])

\* C7: a pattern change that makes the selected unit or grouping infeasible
\* sets that widget to the first entry of the new pattern's feasible list.
C7_CoercedToFirstFeasible ==
    [][event'.name = "pattern"
       => /\ ~AggFeasible(Selection.agg, Label(pattern_labels, event'.new))
             => aggregate_active'
                = LabelIndex(aggregate_labels,
                             feasible_combos[Label(pattern_labels, event'.new)].agg[1])
          /\ ~GroupFeasible(Selection.group, Label(pattern_labels, event'.new))
             => groupby_active'
                = LabelIndex(groupby_labels,
                             feasible_combos[Label(pattern_labels, event'.new)].group[1])
      ]_vars

\* C8: a change of the unit (or the grouping) to a value infeasible for the
\* current pattern is rejected: afterwards the widget holds its old value,
\* the pattern and the other dimension are as before, and no aggregator call
\* of the event passed the infeasible value.
C8_InfeasibleChangeRejected ==
    [][/\ (event'.name = "agg"
           /\ ~AggFeasible(Label(aggregate_labels, event'.new), Selection.pattern))
          => /\ aggregate_active' = aggregate_active
             /\ pattern_active' = pattern_active
             /\ groupby_active' = groupby_active
             /\ \A i \in 1..Len(calls') :
                   calls'[i].agg # Label(aggregate_labels, event'.new)
       /\ (event'.name = "group"
           /\ ~GroupFeasible(Label(groupby_labels, event'.new), Selection.pattern))
          => /\ groupby_active' = groupby_active
             /\ pattern_active' = pattern_active
             /\ aggregate_active' = aggregate_active
             /\ \A i \in 1..Len(calls') :
                   calls'[i].group # Label(groupby_labels, event'.new)
      ]_vars

\* C8 witness: the user picked a unit that is infeasible for the pattern, the
\* widget is back on another value and the plot was redrawn for that value
C8_Witness ==
    /\ event.name = "agg"
    /\ ~AggFeasible(Label(aggregate_labels, event.new), Selection.pattern)
    /\ aggregate_active # event.new
    /\ Len(calls) = 1
    /\ calls[1].agg = Selection.agg

\* C9: from the initial selection (Daily, Hour, None) on, the selection is in
\* the feasible_combos table after every event, and it was whenever a
\* callback of the event completed.
C9_SelectionFeasible ==
    /\ Supported(Selection)
    /\ \A i \in 1..Len(done) : Supported(done[i])

\* C9 witness: a pattern change coerced a dimension (the nested callback of
\* the coerced widget completed before the pattern callback did)
C9_Witness ==
    /\ event.name = "pattern"
    /\ event.exc = "none"
    /\ Len(done) >= 2
    /\ done[Len(done)].callback = "pattern"
    /\ done[1].callback \in {"agg", "group"}

\* two recorded calls passed the same arguments
SameArguments(a, b) ==
    /\ a.agg = b.agg /\ a.pattern = b.pattern /\ a.group = b.group
    /\ a.types = b.types /\ a.locations = b.locations

-----------------------------------------------------------------------------
(* Properties of the slider helpers, stated over the value returned *)

\* the value of a time unit in a row, as the slider counts it: the hour, the
\* weekday 1 = Mon .. 7 = Sun, the week number, the month 1 = Jan .. 12 = Dec
UnitValue(r, time_unit) ==
    CASE time_unit = "hour" -> r.dim_tijd_uur
      [] time_unit = "day" -> IndexOf(DayCategories, r.day_name)
      [] time_unit = "week" -> r.dim_datum_week_nr
      [] time_unit = "month" -> IndexOf(MonthCategories, r.month)

\* C13: for every time unit in {hour, day, week, month} and every slider value
\* of that unit's range, filter_on_slider_value keeps exactly the rows of the
\* loaded table whose value of the unit is the slider value.
C13_FilterKeepsUnitRows ==
    (event.name = "filter" /\ event.new[1] \in {"hour", "day", "week", "month"})
    => /\ returned.err = "none"
       /\ ~returned.none
       /\ returned.df
          = SelectRows(dfincident,
                       [i \in 1..Len(dfincident) |->
                           UnitValue(dfincident[i], event.new[1]) = event.new[2]])

\* the time units the slider helpers name in their error message
KnownTimeUnits == {"hour", "day", "week", "month"}

\* C17: filter_on_slider_value and _get_slider_params raise ValueError for a
\* time_unit outside {hour, day, week, month}; they never return normally,
\* with no value, for such an input.
C17_UnknownUnitRaises ==
    /\ (event.name = "filter" /\ event.new[1] \notin KnownTimeUnits)
       => event.exc = "ValueError" /\ ~returned.none
    /\ (event.name = "slider_params" /\ event.new \notin KnownTimeUnits)
       => event.exc = "ValueError" /\ ~returned.none

-----------------------------------------------------------------------------
(* Properties of the map and the slider in the dashboard session *)

\* the time unit the slider is configured for: the one whose range and title
\* it carries
ConfiguredUnit ==
    CHOOSE u \in KnownTimeUnits :
       /\ _get_slider_params(u).title = slider.title
       /\ _get_slider_params(u).start = slider.start
       /\ _get_slider_params(u).end = slider.end

\* C14: after any sequence of pattern changes the time unit by which
\* callback_time_slider and callback_type_filter filter the map is the unit
\* update_time_slider last configured the slider for.
C14_FilterUnitIsConfiguredUnit ==
    /\ slider_time_unit = ConfiguredUnit
    /\ (event.name = "pattern" /\ event.exc = "none")
       => slider_time_unit = slider_time_unit_mapping[event.new]

\* the map of the incidents of the selected types over all time values
AllTimeMap(types) ==
    prepare_data_for_geoplot(
        SelectRows(dfincident, [i \in 1..Len(dfincident) |->
                      dfincident[i].dim_incident_incident_type \in types]),
        gdflocations)

\* C15: while the slider-active toggle is off, every map update leaves the
\* map showing the incidents of the selected types over all time values.
C15_MapIgnoresSliderWhenOff ==
    [][(~toggle_active' /\ map_data' # map_data)
       => map_data' = AllTimeMap(type_value')]_vars

\* C16: on a map selection the zone ids passed to the aggregator are the
\* location ids of the selected rows of the map data on display.
C16_SelectedZonesOfShownMap ==
    (event.name = "map" /\ selected # {})
    => \A i \in 1..Len(calls) :
          calls[i].locations
          = Locations({map_data[idx + 1].location_id : idx \in selected})

====
